---------------------------- MODULE Spec2Model ----------------------------
(***************************************************************************)
(* A model of src/main.py: the walking-gait animation.                     *)
(*                                                                         *)
(*   JointCalculator    calibration of raw signals and forward kinematics  *)
(*   WalkingAnimation   construction, the frame loop driven by Tk's        *)
(*                      after-queue, and the release of the video sink     *)
(*                      and of the window                                  *)
(*                                                                         *)
(* Real numbers are exact here.  A calibrated angle is a rational          *)
(* [num, den] in lowest terms; a value before or after the trigonometric   *)
(* functions is (p + q*sqrt(3))/2 written <<p, q>>, which is closed under  *)
(* the sums the solver forms when every angle is a multiple of 30 degrees. *)
(***************************************************************************)
EXTENDS Integers, Sequences, FiniteSets, TLC

VARIABLES
    pc,             \* where the program is: "new", "ctor_raised", "constructed", "mainloop", "returned"
    csv_rows,       \* the rows pd.read_csv returns (raw Hip, Knee, Foot signals)
    custom,         \* the angle_params argument of WalkingAnimation.__init__
    angle_params,   \* JointCalculator.angle_params
    df,             \* the angle columns of self.df: joint -> sequence of angles
    total_frames,   \* self.total_frames
    after_queue,    \* Tk's pending after-callbacks: the frame argument of each
    written,        \* the frames out.write received, in order
    events,         \* "write", "release", "destroy" (program calls) and "close" (the user)
    window,         \* TRUE while the Tk root exists
    sink_open,      \* TRUE from cv2.VideoWriter(...) until out.release()
    raised,         \* the frames whose animate call raised
    cal,            \* one call of linear_interpolation: its arguments and result
    kin             \* calls of calculate_joint_positions: their arguments and results

vars == <<pc, csv_rows, custom, angle_params, df, total_frames, after_queue,
          written, events, window, sink_open, raised, cal, kin>>

run_vars == <<pc, csv_rows, custom, angle_params, df, total_frames, after_queue,
              written, events, window, sink_open, raised>>

Joints == {"Hip", "Knee", "Foot"}

(***************************************************************************)
(* Bounds of the model.                                                     *)
(***************************************************************************)
MaxRows == 3
MaxSig == 2

(***************************************************************************)
(* Rational arithmetic.                                                     *)
(***************************************************************************)
Abs(n) == IF n < 0 THEN -n ELSE n

RECURSIVE Gcd(_, _)
Gcd(a, b) == IF b = 0 THEN a ELSE Gcd(b, a % b)

Rat(n, d) ==
    LET g == Gcd(Abs(n), Abs(d))
        s == IF d < 0 THEN -1 ELSE 1
    IN  [num |-> s * (n \div g), den |-> s * (d \div g)]

ZeroDivisionError == [num |-> 0, den |-> 0]

IsError(r) == r.den = 0

(***************************************************************************)
(* JointCalculator                                                          *)
(***************************************************************************)
Curve(s0, s1, a0, a1) ==
    [signal_min |-> s0, signal_max |-> s1, angle_min |-> a0, angle_max |-> a1]

default_params ==
    [Knee |-> Curve(0, 152, 100, 170),
     Foot |-> Curve(0, 150, 85, 140),
     Hip  |-> Curve(0, 45, -15, 60)]

\* angle_params argument: None, or a dict naming some of the joints.
NoneArg == [is_none |-> TRUE, params |-> <<>>]

DictArg(f) == [is_none |-> FALSE, params |-> f]

Truthy(arg) == ~arg.is_none /\ DOMAIN arg.params # {}

\* self.angle_params = angle_params or self.default_params
JointCalculator_init(arg) == IF Truthy(arg) THEN arg.params ELSE default_params

\* y0 + (y1 - y0) * (x - x0) / (x1 - x0) on Python numbers; a mutant that drops y0
linear_interpolation_no_offset(x, x0, y0, x1, y1) ==
    IF x1 - x0 = 0
        THEN ZeroDivisionError
        ELSE Rat((y1 - y0) * (x - x0), x1 - x0)

\* a mutant that saturates outside [x0, x1]
linear_interpolation_clamped(x, x0, y0, x1, y1) ==
    LET lo == IF x0 <= x1 THEN x0 ELSE x1
        hi == IF x0 <= x1 THEN x1 ELSE x0
        xc == IF x < lo THEN lo ELSE IF x > hi THEN hi ELSE x
    IN  IF x1 - x0 = 0
            THEN ZeroDivisionError
            ELSE Rat(y0 * (x1 - x0) + (y1 - y0) * (xc - x0), x1 - x0)

linear_interpolation(x, x0, y0, x1, y1) ==
    IF x1 - x0 = 0
        THEN ZeroDivisionError
        ELSE Rat(y0 * (x1 - x0) + (y1 - y0) * (x - x0), x1 - x0)

\* the lambda of convert_to_angle applied to one value of a joint's column
calibrate(params, x) ==
    linear_interpolation(x, params.signal_min, params.angle_min,
                            params.signal_max, params.angle_max)

\* df[f'{joint} (Angle)'] = df[joint].apply(...): one call per row
AngleColumn(params, rows, joint) ==
    [i \in 1..Len(rows) |-> calibrate(params, rows[i][joint])]

\* Whether some call of the lambda raises: none is made on an empty column.
convert_raises(ap, rows) ==
    \E j \in DOMAIN ap : \E i \in 1..Len(rows) :
        IsError(calibrate(ap[j], rows[i][j]))

convert_to_angle(ap, rows) ==
    [j \in DOMAIN ap |-> AngleColumn(ap[j], rows, j)]

(***************************************************************************)
(* WalkingAnimation: the inputs of a run.                                   *)
(***************************************************************************)
Row(h, k, f) == [Hip |-> h, Knee |-> k, Foot |-> f]

\* Rows a table is drawn from: every signal at signal_min, every signal at
\* the default signal_max, and every signal at the custom signal_max.
RowSet == {Row(0, 0, 0), Row(45, 152, 150), Row(100, 100, 100)}

RECURSIVE Tables(_)
Tables(n) ==
    IF n = 0
        THEN {<<>>}
        ELSE LET shorter == Tables(n - 1)
             IN  shorter \cup {Append(t, r) : t \in {u \in shorter : Len(u) = n - 1}, r \in RowSet}

\* Curves a custom configuration is drawn from: a proper one and a degenerate one.
CustomCurves == {Curve(0, 100, 0, 90), Curve(10, 10, 0, 90)}

CustomArgs ==
    {NoneArg} \cup {DictArg(f) : f \in UNION {[S -> CustomCurves] : S \in SUBSET Joints}}

(***************************************************************************)
(* WalkingAnimation.animate                                                 *)
(***************************************************************************)
\* The frame animate(frame) hands to out.write: the raster is a function of the
\* row's three calibrated angles (through calculate_joint_positions), the fixed
\* hip point and the bone lengths.
Frame(frame) == [row |-> frame, theta |-> [j \in Joints |-> df[j][frame + 1]]]

\* What one call animate(frame) does.  "finish": the terminal branch; "raise":
\* an exception before out.write (a KeyError for a missing angle column, or a
\* failure of the canvas, the screen grab or the encoder); "write" otherwise.
animate_outcome(frame, fails) ==
    IF frame >= total_frames
        THEN "finish"
        ELSE IF ~(Joints \subseteq DOMAIN df) \/ fails
            THEN "raise"
            ELSE "write"

\* the frame argument of root.after(..., self.animate, frame + 1, ...); a mutant
next_frame_skip(frame) == frame + 2

next_frame(frame) == frame + 1

\* out.release(); root.destroy()
ReleaseAndDestroy ==
    /\ events' = events \o <<"release", "destroy">>
    /\ sink_open' = FALSE
    /\ window' = FALSE

\* the body of animate below the terminal branch, when nothing raises
WriteAndReschedule(frame, queue) ==
    /\ written' = Append(written, Frame(frame))
    /\ events' = Append(events, "write")
    /\ after_queue' = Append(queue, next_frame(frame))
    /\ UNCHANGED <<sink_open, window>>

(***************************************************************************)
(* The operations.                                                          *)
(***************************************************************************)
\* WalkingAnimation.__init__: the calculator, the table, its angle columns,
\* the window and the video writer.  An exception of convert_to_angle leaves
\* no object, no window and no writer.
Construct ==
    /\ pc = "new"
    /\ LET ap == JointCalculator_init(custom)
       IN  /\ angle_params' = ap
           /\ IF convert_raises(ap, csv_rows)
                 THEN /\ pc' = "ctor_raised"
                      /\ UNCHANGED <<df, total_frames, window, sink_open>>
                 ELSE /\ pc' = "constructed"
                      /\ df' = convert_to_angle(ap, csv_rows)
                      /\ total_frames' = Len(csv_rows)
                      /\ window' = TRUE
                      /\ sink_open' = TRUE
    /\ UNCHANGED <<csv_rows, custom, after_queue, written, events, raised, cal, kin>>

\* WalkingAnimation.run up to the entry of root.mainloop(): the synchronous
\* animate(0), and the except clause when it raises.
Run ==
    /\ pc = "constructed"
    /\ \E fails \in BOOLEAN :
         LET o == animate_outcome(0, fails)
         IN  \/ /\ o = "finish"
                /\ ReleaseAndDestroy
                /\ pc' = "mainloop"
                /\ UNCHANGED <<written, after_queue, raised>>
             \/ /\ o = "write"
                /\ WriteAndReschedule(0, after_queue)
                /\ pc' = "mainloop"
                /\ UNCHANGED raised
             \/ /\ o = "raise"
                /\ raised' = raised \cup {0}
                /\ ReleaseAndDestroy
                /\ pc' = "returned"
                /\ UNCHANGED <<written, after_queue>>
    /\ UNCHANGED <<csv_rows, custom, angle_params, df, total_frames, cal, kin>>

\* A timer callback of the after-queue: animate(frame) called by Tk's
\* mainloop.  Tk catches what a callback raises (report_callback_exception
\* prints it) and the mainloop carries on: run's except clause is not reached.
TimerCallback ==
    /\ pc = "mainloop"
    /\ window
    /\ after_queue # <<>>
    /\ \E fails \in BOOLEAN :
         LET frame == Head(after_queue)
             o == animate_outcome(frame, fails)
         IN  \/ /\ o = "finish"
                /\ ReleaseAndDestroy
                /\ after_queue' = Tail(after_queue)
                /\ UNCHANGED <<written, raised>>
             \/ /\ o = "write"
                /\ WriteAndReschedule(frame, Tail(after_queue))
                /\ UNCHANGED raised
             \/ /\ o = "raise"
                /\ raised' = raised \cup {frame}
                /\ after_queue' = Tail(after_queue)
                /\ UNCHANGED <<written, events, window, sink_open>>
    /\ UNCHANGED <<pc, csv_rows, custom, angle_params, df, total_frames, cal, kin>>

\* The user closes the window while the mainloop waits: the window manager
\* destroys the root, and the pending callbacks go with it.
UserClose ==
    /\ pc = "mainloop"
    /\ window
    /\ window' = FALSE
    /\ after_queue' = <<>>
    /\ events' = Append(events, "close")
    /\ UNCHANGED <<pc, csv_rows, custom, angle_params, df, total_frames, written,
                   sink_open, raised, cal, kin>>

\* a mutant: run cleans up once more after the mainloop
MainloopReturn_cleanup ==
    /\ pc = "mainloop"
    /\ ~window
    /\ pc' = "returned"
    /\ events' = events \o <<"release", "destroy">>
    /\ sink_open' = FALSE
    /\ UNCHANGED <<csv_rows, custom, angle_params, df, total_frames, after_queue,
                   written, window, raised, cal, kin>>

\* root.mainloop() returns once no window is left, and run returns after it.
MainloopReturn ==
    /\ pc = "mainloop"
    /\ ~window
    /\ pc' = "returned"
    /\ UNCHANGED <<csv_rows, custom, angle_params, df, total_frames, after_queue,
                   written, events, window, sink_open, raised, cal, kin>>

IdleCal == [phase |-> "idle", curve |-> Curve(0, 1, 0, 1), x |-> 0, angle |-> Rat(0, 1)]

IdleKin == [phase |-> "idle"]

Init ==
    /\ pc = "new"
    /\ csv_rows \in Tables(MaxRows)
    /\ custom \in CustomArgs
    /\ angle_params = <<>>
    /\ df = <<>>
    /\ total_frames = 0
    /\ after_queue = <<>>
    /\ written = <<>>
    /\ events = <<>>
    /\ window = FALSE
    /\ sink_open = FALSE
    /\ raised = {}
    /\ cal = IdleCal
    /\ kin = IdleKin

Next == Construct \/ Run \/ TimerCallback \/ UserClose \/ MainloopReturn

Spec == Init /\ [][Next]_vars

(***************************************************************************)
(* One call of the calibration, on arguments drawn from a grid.             *)
(***************************************************************************)
CalAngles == {-15, 0, 90}

CalCurves ==
    {Curve(s0, s1, a0, a1) : s0 \in 0..MaxSig, s1 \in 0..MaxSig, a0 \in CalAngles, a1 \in CalAngles}
        \cup {Curve(0, 100, 0, 90)}
        \cup {default_params[j] : j \in Joints}

CalSignals == (-1..(MaxSig + 1)) \cup {50, 150}

InitCal ==
    /\ cal \in {[phase |-> "args", curve |-> c, x |-> x, angle |-> Rat(0, 1)] :
                    c \in CalCurves, x \in CalSignals}
    /\ kin = IdleKin
    /\ pc = "new"
    /\ csv_rows = <<>>
    /\ custom = NoneArg
    /\ angle_params = <<>>
    /\ df = <<>>
    /\ total_frames = 0
    /\ after_queue = <<>>
    /\ written = <<>>
    /\ events = <<>>
    /\ window = FALSE
    /\ sink_open = FALSE
    /\ raised = {}

\* The lambda of convert_to_angle on one value: the angle, or the exception.
Calibrate ==
    /\ cal.phase = "args"
    /\ LET a == calibrate(cal.curve, cal.x)
       IN  cal' = [cal EXCEPT !.phase = IF IsError(a) THEN "raised" ELSE "done",
                              !.angle = a]
    /\ UNCHANGED <<run_vars, kin>>

NextCal == Calibrate

SpecCal == InitCal /\ [][NextCal]_vars

(***************************************************************************)
(* Forward kinematics.  A number is (p + q*sqrt(3))/2, written <<p, q>>.    *)
(***************************************************************************)
Whole(n) == <<2 * n, 0>>

SAdd(a, b) == <<a[1] + b[1], a[2] + b[2]>>

SNeg(a) == <<-a[1], -a[2]>>

SScale(n, a) == <<n * a[1], n * a[2]>>

\* np.cos(np.radians(deg)) for deg a multiple of 30; cos has period 360
CosDeg(deg) ==
    LET t == <<  <<2, 0>>, <<0, 1>>, <<1, 0>>, <<0, 0>>, <<-1, 0>>, <<0, -1>>,
                 <<-2, 0>>, <<0, -1>>, <<-1, 0>>, <<0, 0>>, <<1, 0>>, <<0, 1>>  >>
    IN  t[((deg % 360) \div 30) + 1]

\* np.sin(np.radians(deg))
SinDeg(deg) == CosDeg(deg - 90)

\* point + L * np.array([cos(angle), -sin(angle)])
Step(point, L, angle) ==
    <<SAdd(point[1], SScale(L, CosDeg(angle))),
      SAdd(point[2], SScale(L, SNeg(SinDeg(angle))))>>

Point(x, y) == <<Whole(x), Whole(y)>>

\* a mutant: the knee segment's angle takes theta_f
calculate_joint_positions_knee_uses_foot(hip_joint, L1, L2, L3, theta_h, theta_k, theta_f) ==
    LET hip_angle == -theta_h - 90
        knee_pos == Step(hip_joint, L1, hip_angle)
        knee_angle == 90 - theta_h - theta_k + theta_f
        ankle_pos == Step(knee_pos, L2, knee_angle)
        foot_angle == 270 - theta_h - theta_k + theta_f
        toe_pos == Step(ankle_pos, L3, foot_angle)
    IN  [knee_pos |-> knee_pos, ankle_pos |-> ankle_pos, toe_pos |-> toe_pos,
         hip_angle |-> hip_angle, knee_angle |-> knee_angle, foot_angle |-> foot_angle]

\* a mutant: the foot has a fixed length
calculate_joint_positions_fixed_foot(hip_joint, L1, L2, L3, theta_h, theta_k, theta_f) ==
    LET hip_angle == -theta_h - 90
        knee_pos == Step(hip_joint, L1, hip_angle)
        knee_angle == 90 - theta_h - theta_k
        ankle_pos == Step(knee_pos, L2, knee_angle)
        foot_angle == 270 - theta_h - theta_k + theta_f
        toe_pos == Step(ankle_pos, 90, foot_angle)
    IN  [knee_pos |-> knee_pos, ankle_pos |-> ankle_pos, toe_pos |-> toe_pos,
         hip_angle |-> hip_angle, knee_angle |-> knee_angle, foot_angle |-> foot_angle]

calculate_joint_positions(hip_joint, L1, L2, L3, theta_h, theta_k, theta_f) ==
    LET hip_angle == -theta_h - 90
        knee_pos == Step(hip_joint, L1, hip_angle)
        knee_angle == 90 - theta_h - theta_k
        ankle_pos == Step(knee_pos, L2, knee_angle)
        foot_angle == 270 - theta_h - theta_k + theta_f
        toe_pos == Step(ankle_pos, L3, foot_angle)
    IN  [knee_pos |-> knee_pos, ankle_pos |-> ankle_pos, toe_pos |-> toe_pos,
         hip_angle |-> hip_angle, knee_angle |-> knee_angle, foot_angle |-> foot_angle]

\* The arguments the solver is called on: the hip points and bone lengths of
\* the program, the unit chain, and angles that take the segment angles below
\* 0 and above 360.
KinHips == {<<0, 0>>, <<350, 100>>, <<400, 100>>}

KinLengths == {<<1, 1, 1>>, <<250, 300, 90>>}

KinAngles == {-30, 0, 30, 60, 90, 390}

InitKin ==
    /\ kin \in {[phase |-> "args", hip |-> h, L |-> l, theta_h |-> th, theta_k |-> tk,
                 theta_f |-> tf, theta_f2 |-> tf2] :
                    h \in KinHips, l \in KinLengths, th \in KinAngles, tk \in KinAngles,
                    tf \in KinAngles, tf2 \in KinAngles}
    /\ cal = IdleCal
    /\ pc = "new"
    /\ csv_rows = <<>>
    /\ custom = NoneArg
    /\ angle_params = <<>>
    /\ df = <<>>
    /\ total_frames = 0
    /\ after_queue = <<>>
    /\ written = <<>>
    /\ events = <<>>
    /\ window = FALSE
    /\ sink_open = FALSE
    /\ raised = {}

\* Three calls on the same hip point: the arguments as drawn, theta_f replaced
\* by theta_f2, and the three lengths doubled.
Solve ==
    /\ kin.phase = "args"
    /\ LET h == Point(kin.hip[1], kin.hip[2])
           L == kin.L
       IN  kin' = [phase |-> "done", hip |-> kin.hip, L |-> L,
                   theta_h |-> kin.theta_h, theta_k |-> kin.theta_k,
                   theta_f |-> kin.theta_f, theta_f2 |-> kin.theta_f2,
                   base |-> calculate_joint_positions(h, L[1], L[2], L[3],
                                kin.theta_h, kin.theta_k, kin.theta_f),
                   varied |-> calculate_joint_positions(h, L[1], L[2], L[3],
                                kin.theta_h, kin.theta_k, kin.theta_f2),
                   doubled |-> calculate_joint_positions(h, 2 * L[1], 2 * L[2], 2 * L[3],
                                kin.theta_h, kin.theta_k, kin.theta_f)]
    /\ UNCHANGED <<run_vars, cal>>

NextKin == Solve

SpecKin == InitKin /\ [][NextKin]_vars

(***************************************************************************)
(* Properties.                                                              *)
(***************************************************************************)
Occurrences(seq, e) == Cardinality({i \in 1..Len(seq) : seq[i] = e})

UserClosed == Occurrences(events, "close") > 0

\* No animate call raised and the user did not close the window.
Uninterrupted == raised = {} /\ ~UserClosed

\* The frame of row k (counted from 1), from the table and the curves.
ExpectedFrame(k) ==
    [row |-> k - 1,
     theta |-> [j \in Joints |-> calibrate(angle_params[j], csv_rows[k][j])]]

\* C1: the frames written are always the frames of rows 1, 2, ... in row
\* order, none skipped and none twice; a run that is not interrupted is never
\* stuck in the mainloop (the next frame is scheduled or the window is gone),
\* and when it has returned it has written exactly one frame per row, nothing
\* is scheduled any more, and the sink and the window are released.
C1_OneFramePerRow ==
    /\ Len(written) <= Len(csv_rows)
    /\ \A k \in 1..Len(written) : written[k] = ExpectedFrame(k)
    /\ (pc = "mainloop" /\ Uninterrupted) =>
          \/ window /\ after_queue = <<Len(written)>>
          \/ ~window /\ after_queue = <<>> /\ Len(written) = Len(csv_rows)
    /\ (pc = "returned" /\ Uninterrupted) =>
          /\ Len(written) = Len(csv_rows)
          /\ after_queue = <<>>
          /\ ~window
          /\ ~sink_open

C1_Witness ==
    /\ pc = "returned"
    /\ Uninterrupted
    /\ Len(csv_rows) = 3
    /\ csv_rows[1] # csv_rows[2]
    /\ Len(written) = 3

\* C2: once an animate call has raised, for any frame, the sink is released,
\* the window is destroyed and the run has ended.
C2_FailureReleases ==
    raised # {} => (~sink_open /\ ~window /\ pc = "returned")

\* Some curve of the configuration in force has signal_max = signal_min.
DegenerateConfig ==
    /\ Truthy(custom)
    /\ \E j \in DOMAIN custom.params :
          custom.params[j].signal_max = custom.params[j].signal_min

\* C3: with a degenerate curve the construction fails: the program never gets
\* past the constructor, no angle column exists and no frame is written.
C3_DegenerateRejected ==
    (DegenerateConfig /\ pc # "new") =>
        (pc = "ctor_raised" /\ DOMAIN df = {} /\ written = <<>>)

\* C4: when run has returned after the user closed the window with a callback
\* still pending (no call had raised), the sink is released and the window
\* destroyed.
C4_AbruptStopReleases ==
    (pc = "returned" /\ UserClosed /\ raised = {}) => (~sink_open /\ ~window)

\* The configuration the caller means by a dict naming some joints: those
\* joints' custom curves, the default curve for every other joint.
Overridden ==
    [j \in Joints |-> IF j \in DOMAIN custom.params
                         THEN custom.params[j]
                         ELSE default_params[j]]

\* C6: after the construction with a dict of proper curves for any subset of
\* the joints, the curves in force are the custom ones for the joints named
\* and the defaults for the others, and all three angle columns exist.
C6_PartialOverride ==
    (pc # "new" /\ ~custom.is_none /\ ~DegenerateConfig) =>
        (angle_params = Overridden /\ DOMAIN df = Joints)

\* C10: the sink is released at most once and the window destroyed at most
\* once (by the program or by the user), and no frame is written after the
\* release.
C10_ReleaseOnceNoWriteAfter ==
    /\ Occurrences(events, "release") <= 1
    /\ Occurrences(events, "destroy") + Occurrences(events, "close") <= 1
    /\ \A i \in 1..Len(events) : \A j \in 1..Len(events) :
          (i < j /\ events[i] = "release") => events[j] # "write"
    /\ sink_open <=> (pc \in {"constructed", "mainloop", "returned"}
                        /\ Occurrences(events, "release") = 0)

C10_Witness ==
    /\ pc = "returned"
    /\ Len(written) >= 2
    /\ Occurrences(events, "release") = 1
    /\ Occurrences(events, "destroy") = 1

\* C7: every angle column maps a raw signal equal to its curve's signal_min to
\* angle_min and one equal to signal_max to angle_max; with the default set a
\* row Hip=0, Knee=0, Foot=0 gets Hip -15, Knee 100, Foot 85.
C7_EndpointsMapToEndpoints ==
    /\ \A j \in DOMAIN df : \A i \in 1..Len(df[j]) :
          /\ csv_rows[i][j] = angle_params[j].signal_min
                => df[j][i] = Rat(angle_params[j].angle_min, 1)
          /\ csv_rows[i][j] = angle_params[j].signal_max
                => df[j][i] = Rat(angle_params[j].angle_max, 1)
    /\ (pc = "constructed" /\ ~Truthy(custom)) =>
          /\ DOMAIN df = Joints
          /\ \A i \in 1..Len(csv_rows) :
                csv_rows[i] = Row(0, 0, 0) =>
                    /\ df["Hip"][i] = Rat(-15, 1)
                    /\ df["Knee"][i] = Rat(100, 1)
                    /\ df["Foot"][i] = Rat(85, 1)

C7_Witness ==
    /\ pc = "constructed"
    /\ custom = NoneArg
    /\ Len(csv_rows) = 2
    /\ csv_rows[1] = Row(0, 0, 0)
    /\ csv_rows[2] = Row(45, 152, 150)
    /\ df["Hip"] = <<Rat(-15, 1), Rat(60, 1)>>

\* C5: for a curve with signal_max # signal_min the angle is
\* angle_min + (angle_max - angle_min) * (x - signal_min) / (signal_max - signal_min)
\* for every x, inside the signal range or not, and never saturates: on a
\* rising curve a signal above signal_max gets an angle above angle_max.  With
\* the curve (0, 100, 0, 90), 50 gives 45 and 150 gives 135.
C5_UnclampedLinear ==
    (cal.phase # "args" /\ cal.curve.signal_max # cal.curve.signal_min) =>
        LET c == cal.curve
            ds == c.signal_max - c.signal_min
        IN  /\ cal.phase = "done"
            /\ cal.angle.den > 0
            /\ cal.angle.num * ds
                  = cal.angle.den * (c.angle_min * ds + (c.angle_max - c.angle_min) * (cal.x - c.signal_min))
            /\ (ds > 0 /\ c.angle_max > c.angle_min /\ cal.x > c.signal_max)
                  => cal.angle.num > c.angle_max * cal.angle.den
            /\ (ds > 0 /\ c.angle_max > c.angle_min /\ cal.x < c.signal_min)
                  => cal.angle.num < c.angle_min * cal.angle.den
            /\ (c = Curve(0, 100, 0, 90) /\ cal.x = 50) => cal.angle = Rat(45, 1)
            /\ (c = Curve(0, 100, 0, 90) /\ cal.x = 150) => cal.angle = Rat(135, 1)

C5_Witness ==
    /\ cal.phase = "done"
    /\ cal.curve = Curve(0, 100, 0, 90)
    /\ cal.x = 150
    /\ cal.angle = [num |-> 135, den |-> 1]

KinHip == Point(kin.hip[1], kin.hip[2])

\* C8: with the hip point, the lengths, theta_h and theta_k fixed, another
\* theta_f gives the same knee_pos, ankle_pos, hip_angle (= -theta_h - 90) and
\* knee_angle (= 90 - theta_h - theta_k); foot_angle is
\* 270 - theta_h - theta_k + theta_f as it stands, not reduced into [0, 360).
C8_FootAngleOnlyMovesFoot ==
    kin.phase = "done" =>
        /\ kin.varied.knee_pos = kin.base.knee_pos
        /\ kin.varied.ankle_pos = kin.base.ankle_pos
        /\ kin.base.hip_angle = -kin.theta_h - 90
        /\ kin.varied.hip_angle = kin.base.hip_angle
        /\ kin.base.knee_angle = 90 - kin.theta_h - kin.theta_k
        /\ kin.varied.knee_angle = kin.base.knee_angle
        /\ kin.base.foot_angle = 270 - kin.theta_h - kin.theta_k + kin.theta_f
        /\ kin.varied.foot_angle = 270 - kin.theta_h - kin.theta_k + kin.theta_f2

C8_Witness ==
    /\ kin.phase = "done"
    /\ kin.theta_f # kin.theta_f2
    /\ kin.varied.toe_pos # kin.base.toe_pos
    /\ kin.base.foot_angle >= 360
    /\ kin.base.knee_angle < 0
    /\ kin.base.hip_angle < 0

\* C9: with the three lengths doubled and everything else fixed, the offset
\* of knee_pos, ankle_pos and toe_pos from the hip point doubles (d - h =
\* 2 * (b - h), that is d + h = 2 * b, on both coordinates) and the three
\* angles stay.
C9_DoubledLengthsDoubleOffsets ==
    kin.phase = "done" =>
        /\ \A c \in 1..2 :
              /\ SAdd(kin.doubled.knee_pos[c], KinHip[c]) = SScale(2, kin.base.knee_pos[c])
              /\ SAdd(kin.doubled.ankle_pos[c], KinHip[c]) = SScale(2, kin.base.ankle_pos[c])
              /\ SAdd(kin.doubled.toe_pos[c], KinHip[c]) = SScale(2, kin.base.toe_pos[c])
        /\ kin.doubled.hip_angle = kin.base.hip_angle
        /\ kin.doubled.knee_angle = kin.base.knee_angle
        /\ kin.doubled.foot_angle = kin.base.foot_angle

C9_Witness ==
    /\ kin.phase = "done"
    /\ kin.L = <<250, 300, 90>>
    /\ kin.base.knee_pos # KinHip
    /\ kin.base.toe_pos # kin.base.ankle_pos
    /\ kin.doubled.toe_pos # kin.base.toe_pos

\* The unit chain at angle 0: knee (0, 1), ankle (0, 0), toe (0, 1).
UnitChain ==
    (kin.phase = "done" /\ kin.hip = <<0, 0>> /\ kin.L = <<1, 1, 1>>
        /\ kin.theta_h = 0 /\ kin.theta_k = 0 /\ kin.theta_f = 0) =>
        /\ kin.base.knee_pos = Point(0, 1)
        /\ kin.base.ankle_pos = Point(0, 0)
        /\ kin.base.toe_pos = Point(0, 1)
        /\ kin.base.hip_angle = -90
        /\ kin.base.knee_angle = 90
        /\ kin.base.foot_angle = 270

==========================================================================
